---- MODULE Spec2Model ----
(***************************************************************************)
(* Model of the event/recording lifecycle controller of                    *)
(* rpy_motion_detector (src/src/rpy_motion_detector/motion_detector.py).   *)
(*                                                                         *)
(* The frame loop (MotionDetector.start) is one thread; every iteration of *)
(* its body is one action.  record_precapture_frames and                   *)
(* on_movie_end_action run in background threads, one step per action.     *)
(* Time is an integer clock (seconds) read by cv2.getTickCount,            *)
(* time.time and datetime.now; all reads made while one frame is processed *)
(* return the same instant.  The Motion Engine, the encoder, the           *)
(* concatenation tool and the hook commands are inputs: contours found or  *)
(* not (or an exception), launch/stop raising or not, the encoder exiting  *)
(* after SIGINT or not, exit status zero or not.  The exit of the          *)
(* interpreter (end of the stream or a termination signal) runs            *)
(* MotionDetector.__del__ in one action.                                   *)
(***************************************************************************)
EXTENDS Integers, Sequences, FiniteSets, TLC

VARIABLES
    cfg,                    \* MotionDetectorConfig (fixed after construction)
    now,                    \* the clock
    main_pc,                \* main thread: "init", "loop", "blocked", "ended",
                            \*              "del_blocked", "exited"
    start_time,             \* self.start_time
    cam_fps,                \* self.cam_fps
    buffer_size,            \* self.buffer_size
    nframes,                \* frames read from the camera so far (frame k is the k-th)
    md,                     \* the attributes of the MotionDetector object
    frame_buffer,           \* self.frame_buffer (shared with precapture threads)
    is_precapture_recorded, \* self.is_precapture_recorded (keys set to True)
    pre_threads,            \* record_precapture_frames threads
    post_threads,           \* on_movie_end_action threads
    file_list,              \* contents of <tmp_dir>/file_list.txt
    procs,                  \* encoder processes launched by Popen and still running
    sessions,               \* history: one entry per call of start_movie_recording
    obs                     \* history: what the last step of the frame loop did

vars == <<cfg, now, main_pc, start_time, cam_fps, buffer_size, nframes, md, frame_buffer,
          is_precapture_recorded, pre_threads, post_threads, file_list, procs,
          sessions, obs>>

----------------------------------------------------------------------------
(* Bounds of the model *)

MaxTime == 13
MaxFrames == 3
MaxSessions == 2

(* Program constants *)

SoakSeconds == 10
PollRetries == 30

(* Input sets *)

TimeSteps == {0, 1, 2, 10, 11}
ConsecutiveFramesSet == {2}
NoMotionTimeoutSet == {1}
MaxDurationSet == {1}
PrecaptureSecondsSet == {1}
FpsSet == {1}

None == <<>>
NoProcess == 0

----------------------------------------------------------------------------
(* Configuration *)

(* picture.enable and movie.enable are read by independent branches         *)
(* (take_picture, handle_motion_detection); the configuration with both    *)
(* off is left out.                                                        *)
Configs ==
    { c \in [ consecutive_frames : ConsecutiveFramesSet,
              no_motion_timeout  : NoMotionTimeoutSet,
              max_duration       : MaxDurationSet,
              precapture_seconds : PrecaptureSecondsSet,
              record_precapture  : BOOLEAN,
              movie_enable       : BOOLEAN,
              picture_enable     : BOOLEAN ] :
          c.picture_enable \/ c.movie_enable }

(* Outcomes of the external collaborators while one frame is processed *)
Envs ==
    [ motion    : BOOLEAN,     \* len(contours) > 0
      hook_ok   : BOOLEAN,     \* hook commands return 0
      launch_ok : BOOLEAN,     \* subprocess.Popen does not raise
      stop_ok   : BOOLEAN,     \* killpg/wait of the first stop does not raise
      stop_ok2  : BOOLEAN,     \* same, for the stop retried at the end of the frame
      exits     : BOOLEAN ]    \* the encoder exits once it has got SIGINT

----------------------------------------------------------------------------
(* MotionDetector.__init__ *)

InitMd ==
    [ detected_motion_consecutive_frames |-> 0,
      last_motion_time          |-> 0,
      is_event_ongoing          |-> FALSE,
      is_movie_recording        |-> FALSE,
      gst_process               |-> NoProcess,
      movie_start_time          |-> 0,
      movie_filename            |-> None,
      precapture_movie_filename |-> None,
      final_movie_filename      |-> None ]

(* The part of the state the methods called from the frame loop change *)
(* blocked: the calling thread is inside a gst_process.wait() that never    *)
(* returns; nothing that follows the wait in the code is executed          *)
World ==
    [ md |-> md, frame_buffer |-> frame_buffer, pre_threads |-> pre_threads,
      post_threads |-> post_threads, procs |-> procs, sessions |-> sessions,
      calls |-> <<>>, blocked |-> FALSE ]

Call(w, c) == [w EXCEPT !.calls = Append(@, c)]

----------------------------------------------------------------------------
(* Hook Runner: subprocess.run(..., shell=True); the exit status is only logged *)

(* A hook runner whose failing command stops the caller *)
run_hook_failure_stops_caller(w, name, filename, ok) ==
    IF ok
    THEN Call(w, [op |-> name, arg |-> filename, ok |-> ok])
    ELSE [Call(w, [op |-> name, arg |-> filename, ok |-> ok])
             EXCEPT !.blocked = TRUE]

run_hook(w, name, filename, ok) ==
    Call(w, [op |-> name, arg |-> filename, ok |-> ok])

(* MotionDetector.take_picture *)
take_picture(w, t, ok) ==
    run_hook(Call(w, [op |-> "take_picture", arg |-> <<"picture", t>>, ok |-> TRUE]),
             "on_picture_save", <<"picture", t>>, ok)

(* MotionDetector.start_event *)
start_event(w, t, env) ==
    LET w1 == [Call(w, [op |-> "start_event", arg |-> None, ok |-> TRUE])
                  EXCEPT !.md.is_event_ongoing = TRUE]
        w2 == run_hook(w1, "on_event_start", None, env.hook_ok)
    IN  IF cfg.picture_enable THEN take_picture(w2, t, env.hook_ok) ELSE w2

(* A stop_event that clears the flag and runs no hook *)
stop_event_without_hook(w, env) ==
    [Call(w, [op |-> "stop_event", arg |-> None, ok |-> TRUE])
        EXCEPT !.md.is_event_ongoing = FALSE]

(* MotionDetector.stop_event *)
stop_event(w, env) ==
    LET w1 == [Call(w, [op |-> "stop_event", arg |-> None, ok |-> TRUE])
                  EXCEPT !.md.is_event_ongoing = FALSE]
    IN  run_hook(w1, "on_event_end", None, env.hook_ok)

(* threading.Thread(target=self.record_precapture_frames,                  *)
(*                  args=(self.frame_buffer, self.precapture_movie_filename)) *)
(* The first argument is the list object itself: the thread iterates over  *)
(* frame_buffer as the frame loop keeps changing it.  at_start is history: *)
(* what the list held when the thread was created.                         *)
NewPreThread(buf, filename) ==
    [ movie_filename |-> filename, idx |-> 0, pc |-> "write", at_start |-> buf ]

(* threading.Thread(target=self.on_movie_end_action, args=(...)) *)
NewPostThread(sid, pre, seg, final) ==
    [ sid |-> sid,
      precapture_movie_filename |-> pre,
      movie_filename |-> seg,
      final_movie_name |-> final,
      pc |-> IF cfg.record_precapture THEN "poll" ELSE "hook",
      polls |-> 0, concat_read |-> None, outcome |-> "none",
      hook_filename |-> None, hook_runs |-> 0, hook_status |-> "none" ]

(* Filenames derived from the timestamp in start_movie_recording *)
SegmentName(t) == <<"movie", t>>
PrecaptureName(t) == <<"precapture_movie", t>>
FinalName(t) == IF cfg.record_precapture THEN <<"final_movie", t>> ELSE SegmentName(t)

(* A failed launch after which the session is taken to be open *)
launch_failed_marks_recording(w) ==
    [w EXCEPT !.md.is_movie_recording = TRUE]

(* MotionDetector.start_movie_recording, lines 346-347: Popen raised, the  *)
(* error is logged and nothing else is done                                *)
launch_failed(w) == w

(* MotionDetector.start_movie_recording *)
start_movie_recording(w, t, env) ==
    LET pre == IF cfg.record_precapture THEN PrecaptureName(t) ELSE None
        w1 == [Call(w, [op |-> "start_movie_recording", arg |-> FinalName(t),
                        ok |-> env.launch_ok])
                  EXCEPT !.md.movie_filename = SegmentName(t),
                         !.md.precapture_movie_filename = pre,
                         !.md.final_movie_filename = FinalName(t)]
        w2 == IF cfg.record_precapture
              THEN [w1 EXCEPT !.pre_threads =
                                  Append(@, NewPreThread(w.frame_buffer, pre))]
              ELSE w1
        sid == Len(w.sessions) + 1
        w3 == [w2 EXCEPT !.sessions = Append(@,
                   [ precapture_movie_filename |-> pre,
                     movie_filename |-> SegmentName(t),
                     final_movie_filename |-> FinalName(t),
                     launched |-> env.launch_ok,
                     start_hook_filename |-> None ])]
    IN  IF ~env.launch_ok
        THEN launch_failed(w3)
        ELSE LET w4 == [w3 EXCEPT !.md.gst_process = sid,
                                  !.procs = @ \cup {sid},
                                  !.md.is_movie_recording = TRUE,
                                  !.md.movie_start_time = t,
                                  !.sessions[sid].start_hook_filename =
                                      w3.md.final_movie_filename]
             IN  run_hook(w4, "on_movie_start", w4.md.final_movie_filename, env.hook_ok)

(* MotionDetector.stop_movie_recording.  ok: getpgid/killpg do not raise   *)
(* (when they raise the encoder got no signal and keeps running); exits:   *)
(* the encoder exits after SIGINT, so that wait() returns.  The call is    *)
(* logged with ok TRUE when it returned having stopped the encoder.        *)
stop_movie_recording(w, ok, exits) ==
    IF w.md.gst_process = NoProcess
    THEN Call(w, [op |-> "stop_movie_recording", arg |-> None, ok |-> TRUE])
    ELSE IF ~ok
    THEN Call(w, [op |-> "stop_movie_recording", arg |-> w.md.movie_filename, ok |-> FALSE])
    ELSE IF ~exits
    THEN [Call(w, [op |-> "stop_movie_recording", arg |-> w.md.movie_filename,
                   ok |-> FALSE])
             EXCEPT !.blocked = TRUE]
    ELSE [Call(w, [op |-> "stop_movie_recording", arg |-> w.md.movie_filename, ok |-> TRUE])
             EXCEPT !.procs = @ \ {w.md.gst_process},
                    !.md.gst_process = NoProcess,
                    !.md.is_movie_recording = FALSE,
                    !.md.movie_start_time = 0,
                    !.post_threads = Append(@,
                        NewPostThread(w.md.gst_process,
                                      w.md.precapture_movie_filename,
                                      w.md.movie_filename,
                                      w.md.final_movie_filename)),
                    !.md.precapture_movie_filename = <<None>>,
                    !.md.movie_filename = None,
                    !.md.final_movie_filename = None]

(* A handler that runs the event-start actions on every confirmed frame *)
handle_motion_detection_restarts(w, t, env) ==
    LET w1 == start_event(w, t, env)
    IN  IF ~w1.md.is_movie_recording /\ ~cfg.movie_enable
        THEN start_movie_recording(w1, t, env)
        ELSE w1

(* MotionDetector.handle_motion_detection *)
handle_motion_detection(w, t, env) ==
    LET w1 == IF ~w.md.is_event_ongoing THEN start_event(w, t, env) ELSE w
    IN  IF ~w1.md.is_movie_recording /\ ~cfg.movie_enable
        THEN start_movie_recording(w1, t, env)
        ELSE w1

(* MotionDetector.detect_motion, lines 156-162: a non-empty detection *)
count_motion(w, t) ==
    [w EXCEPT !.md.detected_motion_consecutive_frames = @ + 1,
              !.md.last_motion_time = t]

(* A debounce test that is satisfied one frame early *)
enough_one_frame_early(w) ==
    w.md.detected_motion_consecutive_frames >= cfg.consecutive_frames - 1

(* MotionDetector.detect_motion, lines 166-168: the debounce test *)
enough_consecutive_frames(w) ==
    w.md.detected_motion_consecutive_frames >= cfg.consecutive_frames

(* A timeout test with >= in place of > *)
timed_out_at_the_limit(w, t) ==
    t - w.md.last_motion_time >= cfg.no_motion_timeout

(* MotionDetector.detect_motion, line 186: the no-motion timeout test *)
no_motion_timed_out(w, t) ==
    LET time_since_last_motion == t - w.md.last_motion_time
    IN  time_since_last_motion > cfg.no_motion_timeout

(* An empty detection that leaves the counter as it is *)
no_motion_keeps_counter(w, t, env) ==
    IF w.md.is_event_ongoing /\ no_motion_timed_out(w, t)
    THEN stop_movie_recording(stop_event(w, env), env.stop_ok, env.exits)
    ELSE w

(* MotionDetector.detect_motion, lines 180-189: an empty detection *)
no_motion(w, t, env) ==
    LET w1 == [w EXCEPT !.md.detected_motion_consecutive_frames = 0]
    IN  IF w1.md.is_event_ongoing /\ no_motion_timed_out(w1, t)
        THEN stop_movie_recording(stop_event(w1, env), env.stop_ok, env.exits)
        ELSE w1

(* MotionDetector.detect_motion, lines 155-189: counter, debounce, no-motion stop *)
motion_transition(w, t, env) ==
    LET motion_detected == env.motion
        w1 == IF motion_detected THEN count_motion(w, t) ELSE w
    IN  IF motion_detected /\ enough_consecutive_frames(w1)
        THEN handle_motion_detection(w1, t, env)
        ELSE IF motion_detected
        THEN w1
        ELSE no_motion(w1, t, env)

(* A duration test that is met as soon as max_duration is reached *)
duration_exceeded_at_the_limit(w, t) ==
    LET movie_duration == t - w.md.movie_start_time
    IN  movie_duration >= cfg.max_duration

(* MotionDetector.detect_motion, line 200: the duration test *)
duration_exceeded(w, t) ==
    LET movie_duration == t - w.md.movie_start_time
    IN  movie_duration > cfg.max_duration

(* A rollover that stops the movie and does not start the next one *)
rollover_without_restart(w, t, env) ==
    stop_movie_recording(w, env.stop_ok, env.exits)

(* MotionDetector.detect_motion, lines 201-204: segment rollover *)
rollover(w, t, env) ==
    LET w1 == stop_movie_recording(w, env.stop_ok, env.exits)
    IN  IF w1.blocked THEN w1 ELSE start_movie_recording(w1, t, env)

(* A policy that does not stop a session left open after the event ended *)
recording_policy_without_retry(w, t, env) ==
    IF w.md.is_event_ongoing /\ w.md.is_movie_recording
       /\ w.md.gst_process # NoProcess
    THEN IF duration_exceeded(w, t) THEN rollover(w, t, env) ELSE w
    ELSE w

(* MotionDetector.detect_motion, lines 191-207: rollover or stop of the movie *)
recording_policy(w, t, env) ==
    IF w.md.is_event_ongoing /\ w.md.is_movie_recording
       /\ w.md.gst_process # NoProcess
    THEN IF duration_exceeded(w, t) THEN rollover(w, t, env) ELSE w
    ELSE IF w.md.is_movie_recording
    THEN stop_movie_recording(w, env.stop_ok2, env.exits)
    ELSE w

(* A detect_motion that checks the movie duration before the detection *)
detect_motion_rollover_first(w, t, env) ==
    LET w1 == recording_policy(w, t, env)
    IN  IF w1.blocked THEN w1 ELSE motion_transition(w1, t, env)

(* MotionDetector.detect_motion *)
detect_motion(w, t, env) ==
    LET w1 == motion_transition(w, t, env)
    IN  IF w1.blocked THEN w1 ELSE recording_policy(w1, t, env)

(* A soak test with >= in place of > *)
soaked_at_the_limit(t) == t - start_time >= SoakSeconds

(* MotionDetector.process_frame, line 151: the soak test *)
Soaked(t) == t - start_time > SoakSeconds

(* MotionDetector.process_frame: the Motion Engine's result is env.motion; *)
(* detect_motion is called only after the soak period                      *)

process_frame(w, t, env) ==
    IF Soaked(t) THEN detect_motion(w, t, env) ELSE w

(* A buffer that evicts the newest frame *)
push_frame_evicts_newest(buf, frame) ==
    LET appended == Append(buf, frame)
    IN  IF Len(appended) > buffer_size
        THEN SubSeq(appended, 1, Len(appended) - 1)
        ELSE appended

(* MotionDetector.start, lines 129-132: append the frame, evict the oldest *)
push_frame(buf, frame) ==
    LET appended == Append(buf, frame)
    IN  IF Len(appended) > buffer_size THEN Tail(appended) ELSE appended

----------------------------------------------------------------------------
(* State after MotionDetector(config) *)

Init ==
    /\ cfg \in Configs
    /\ now = 0
    /\ main_pc = "init"
    /\ start_time = 0
    /\ cam_fps = 0
    /\ buffer_size = 0
    /\ nframes = 0
    /\ md = InitMd
    /\ frame_buffer = <<>>
    /\ is_precapture_recorded = {}
    /\ pre_threads = <<>>
    /\ post_threads = <<>>
    /\ file_list = None
    /\ procs = {}
    /\ sessions = <<>>
    /\ obs = [op |-> "init", motion |-> FALSE, fed |-> FALSE, run |-> 0,
              last_nonempty |-> 0, calls |-> <<>>]

(* MotionDetector.start, lines 104-122: open the camera, read its properties *)
Start ==
    /\ main_pc = "init"
    /\ \E opened \in BOOLEAN, fps \in FpsSet :
          /\ main_pc' = IF opened THEN "loop" ELSE "ended"
          /\ cam_fps' = IF opened THEN fps ELSE cam_fps
          /\ buffer_size' = IF opened THEN cfg.precapture_seconds * fps ELSE buffer_size
    /\ start_time' = now
    /\ obs' = [obs EXCEPT !.op = "start"]
    /\ UNCHANGED <<cfg, now, nframes, md, frame_buffer, is_precapture_recorded,
                   pre_threads, post_threads, file_list, sessions, procs>>

(* MotionDetector.start, lines 124-134: one iteration of the frame loop.   *)
(* cap.read blocks for d time units and returns frame number nframes + 1.  *)
(* The run is cut after `frames` frames, `nsessions` sessions and time     *)
(* `horizon`, and the collaborators' outcomes are drawn from `envs`.       *)
FrameWithin(frames, nsessions, horizon, envs) ==
    /\ main_pc = "loop"
    /\ nframes < frames
    /\ \E d \in TimeSteps, env \in envs :
          /\ now + d <= horizon
          /\ LET t == now + d
                 w0 == [World EXCEPT !.frame_buffer = push_frame(@, nframes + 1)]
                 w == process_frame(w0, t, env)
             IN  /\ Len(w.sessions) <= nsessions
                 /\ now' = t
                 /\ nframes' = nframes + 1
                 /\ frame_buffer' = w.frame_buffer
                 /\ main_pc' = IF w.blocked THEN "blocked" ELSE "loop"
                 /\ procs' = w.procs
                 /\ md' = w.md
                 /\ pre_threads' = w.pre_threads
                 /\ post_threads' = w.post_threads
                 /\ sessions' = w.sessions
                 /\ obs' = [op |-> "frame", motion |-> env.motion,
                            fed |-> Soaked(t),
                            run |-> IF ~Soaked(t) THEN obs.run
                                    ELSE IF env.motion THEN obs.run + 1 ELSE 0,
                            last_nonempty |-> IF Soaked(t) /\ env.motion
                                              THEN t ELSE obs.last_nonempty,
                            calls |-> w.calls]
    /\ UNCHANGED <<cfg, start_time, cam_fps, buffer_size,
                   is_precapture_recorded, file_list>>

(* The frame loop within the bounds *)
Frame == FrameWithin(MaxFrames, MaxSessions, MaxTime, Envs)

(* MotionDetector.start, lines 124-134, with process_frame lines 137-149:  *)
(* an iteration of the frame loop in which the Motion Engine               *)
(* (frame_processing, find_contours) raises.  The frame is already in the  *)
(* buffer; the exception leaves process_frame and start, and the           *)
(* interpreter begins to exit.                                             *)
FrameEngineRaisesWithin(frames, horizon) ==
    /\ main_pc = "loop"
    /\ nframes < frames
    /\ \E d \in TimeSteps :
          /\ now + d <= horizon
          /\ now' = now + d
    /\ nframes' = nframes + 1
    /\ frame_buffer' = push_frame(frame_buffer, nframes + 1)
    /\ main_pc' = "ended"
    /\ obs' = [obs EXCEPT !.op = "frame", !.motion = FALSE, !.fed = FALSE,
                          !.calls = <<>>]
    /\ UNCHANGED <<cfg, start_time, cam_fps, buffer_size, md,
                   is_precapture_recorded, pre_threads, post_threads, file_list,
                   sessions, procs>>

(* The Motion Engine raises within the bounds *)
FrameEngineRaises == FrameEngineRaisesWithin(MaxFrames, MaxTime)

(* MotionDetector.start, lines 125-128: cap.read fails, the loop ends,      *)
(* start and run return and the interpreter begins to exit                 *)
EndOfStream ==
    /\ main_pc = "loop"
    /\ main_pc' = "ended"
    /\ obs' = [obs EXCEPT !.op = "exit"]
    /\ UNCHANGED <<cfg, now, start_time, cam_fps, buffer_size, nframes, md,
                   frame_buffer, is_precapture_recorded, pre_threads, post_threads,
                   file_list, sessions, procs>>

(* SignalHandler.handle_signal: a termination signal is handled in the     *)
(* main thread.  "del resource" unbinds the loop variable and changes      *)
(* nothing of the detector; sys.exit(0) makes the main thread leave start  *)
(* (or the wait it is blocked in) and the interpreter begins to exit.      *)
Signal ==
    /\ main_pc \in {"init", "loop", "blocked"}
    /\ main_pc' = "ended"
    /\ obs' = [obs EXCEPT !.op = "exit"]
    /\ UNCHANGED <<cfg, now, start_time, cam_fps, buffer_size, nframes, md,
                   frame_buffer, is_precapture_recorded, pre_threads, post_threads,
                   file_list, sessions, procs>>

(* MotionDetector.__del__, lines 77-80: SIGINT to the encoder's process    *)
(* group and wait, outside any try.  ok: getpgid/killpg do not raise;      *)
(* exits: the encoder exits after SIGINT, so that wait() returns.          *)
kill_encoder(w, ok, exits) ==
    IF ~ok \/ ~exits
    THEN Call(w, [op |-> "kill_encoder", arg |-> w.md.movie_filename, ok |-> FALSE])
    ELSE [Call(w, [op |-> "kill_encoder", arg |-> w.md.movie_filename, ok |-> TRUE])
             EXCEPT !.procs = @ \ {w.md.gst_process}]

(* MotionDetector.__del__, lines 83-97: empty the tmp directory *)
clean_tmp(w) ==
    Call(w, [op |-> "clean_tmp", arg |-> None, ok |-> TRUE])

(* MotionDetector.__del__, lines 81-97, the steps after the encoder was    *)
(* killed and reaped: stop_event, then stop_movie_recording, whose         *)
(* os.getpgid raises for the pid that wait() has reaped, then the cleanup  *)
after_kill(w, env) ==
    clean_tmp(stop_movie_recording(stop_event(w, env), FALSE, TRUE))

(* MotionDetector.__del__.  An exception of lines 78-79 leaves __del__     *)
(* (the interpreter prints it and goes on exiting); a wait() that never    *)
(* returns keeps the main thread in __del__.                               *)
del_detector(w, env) ==
    IF w.md.gst_process = NoProcess
    THEN after_kill(w, env)
    ELSE LET w1 == kill_encoder(w, env.stop_ok, env.exits)
         IN  IF env.stop_ok /\ env.exits THEN after_kill(w1, env)
             ELSE [w1 EXCEPT !.blocked = env.stop_ok]

(* The interpreter exits: it joins the threads that were started (they are *)
(* not daemon threads), then drops the last references to the detector,    *)
(* which runs MotionDetector.__del__                                       *)
Del ==
    /\ main_pc = "ended"
    /\ \A i \in DOMAIN pre_threads : pre_threads[i].pc = "done"
    /\ \A i \in DOMAIN post_threads : post_threads[i].pc = "done"
    /\ \E env \in Envs :
          LET w == del_detector(World, env)
          IN  /\ main_pc' = IF w.blocked THEN "del_blocked" ELSE "exited"
              /\ md' = w.md
              /\ post_threads' = w.post_threads
              /\ procs' = w.procs
              /\ file_list' = IF \E k \in DOMAIN w.calls : w.calls[k].op = "clean_tmp"
                               THEN None ELSE file_list
              /\ obs' = [obs EXCEPT !.op = "del", !.calls = w.calls]
    /\ UNCHANGED <<cfg, now, start_time, cam_fps, buffer_size, nframes,
                   frame_buffer, is_precapture_recorded, pre_threads, sessions>>

(* MotionDetector.record_precapture_frames, lines 270-275: one iteration   *)
(* of "for frame in frame_buffer" over the shared list, which hands        *)
(* frame_buffer[idx + 1] to the video writer (four times), or the end of   *)
(* the loop, which releases the writer and sets the completion flag        *)
PreStep(i) ==
    /\ i \in DOMAIN pre_threads
    /\ pre_threads[i].pc = "write"
    /\ LET th == pre_threads[i]
       IN  IF th.idx < Len(frame_buffer)
           THEN /\ pre_threads' = [pre_threads EXCEPT ![i].idx = @ + 1]
                /\ UNCHANGED is_precapture_recorded
           ELSE /\ pre_threads' = [pre_threads EXCEPT ![i].pc = "done"]
                /\ is_precapture_recorded' = is_precapture_recorded \cup {th.movie_filename}
    /\ UNCHANGED <<cfg, now, main_pc, start_time, cam_fps, buffer_size, nframes, md,
                   frame_buffer, post_threads, file_list, sessions, procs, obs>>

(* MotionDetector.on_movie_end_action, lines 405-409: the name given to the hook *)
resolve_final_name(success, movie_filename, final_movie_name) ==
    IF success THEN movie_filename ELSE final_movie_name

(* MotionDetector.concatenate_movies, lines 372-377: a poll of the loop    *)
(* "for _ in range(30)" finds the flag of movie1 set                       *)
PostPollFound(i) ==
    /\ i \in DOMAIN post_threads
    /\ post_threads[i].pc = "poll"
    /\ post_threads[i].precapture_movie_filename \in is_precapture_recorded
    /\ post_threads' = [post_threads EXCEPT ![i].pc = "write_list"]
    /\ UNCHANGED <<cfg, now, main_pc, start_time, cam_fps, buffer_size, nframes, md,
                   frame_buffer, is_precapture_recorded, pre_threads, file_list,
                   sessions, procs, obs>>

(* A wait that, once timed out, ends the job without running the hook *)
PostPollTimeoutSkipsHook(i) ==
    /\ i \in DOMAIN post_threads
    /\ post_threads[i].pc = "poll"
    /\ post_threads[i].precapture_movie_filename \notin is_precapture_recorded
    /\ post_threads' = [post_threads EXCEPT ![i].polls = PollRetries,
                                            ![i].outcome = "timeout",
                                            ![i].pc = "done"]
    /\ UNCHANGED <<cfg, now, main_pc, start_time, cam_fps, buffer_size, nframes, md,
                   frame_buffer, is_precapture_recorded, pre_threads, file_list,
                   sessions, procs, obs>>

(* MotionDetector.concatenate_movies, lines 373-380: the polls left of the *)
(* PollRetries all find the flag unset (polls between which no other       *)
(* thread acts are one step); concatenate_movies returns (False, ...) and  *)
(* on_movie_end_action, lines 405-409, resolves the name for the hook      *)
PostPollTimeout(i) ==
    /\ i \in DOMAIN post_threads
    /\ post_threads[i].pc = "poll"
    /\ post_threads[i].precapture_movie_filename \notin is_precapture_recorded
    /\ post_threads' = [post_threads EXCEPT
            ![i].polls = PollRetries,
            ![i].outcome = "timeout",
            ![i].final_movie_name =
                resolve_final_name(FALSE, post_threads[i].movie_filename, @),
            ![i].pc = "hook"]
    /\ UNCHANGED <<cfg, now, main_pc, start_time, cam_fps, buffer_size, nframes, md,
                   frame_buffer, is_precapture_recorded, pre_threads, file_list,
                   sessions, procs, obs>>

(* MotionDetector.concatenate_movies, lines 386-389: write file_list.txt *)
PostWriteList(i) ==
    /\ i \in DOMAIN post_threads
    /\ post_threads[i].pc = "write_list"
    /\ file_list' = <<post_threads[i].precapture_movie_filename,
                      post_threads[i].movie_filename>>
    /\ post_threads' = [post_threads EXCEPT ![i].pc = "ffmpeg"]
    /\ UNCHANGED <<cfg, now, main_pc, start_time, cam_fps, buffer_size, nframes, md,
                   frame_buffer, is_precapture_recorded, pre_threads, sessions, procs, obs>>

(* MotionDetector.concatenate_movies, lines 391-395: ffmpeg reads the list *)
(* and exits with status zero or not; on_movie_end_action, lines 405-409,  *)
(* resolves the name for the hook                                          *)
PostConcat(i) ==
    /\ i \in DOMAIN post_threads
    /\ post_threads[i].pc = "ffmpeg"
    /\ \E returncode_zero \in BOOLEAN :
          post_threads' = [post_threads EXCEPT
              ![i].concat_read = file_list,
              ![i].outcome = IF returncode_zero THEN "concatenated" ELSE "failed",
              ![i].final_movie_name =
                  resolve_final_name(returncode_zero, post_threads[i].movie_filename, @),
              ![i].pc = "hook"]
    /\ UNCHANGED <<cfg, now, main_pc, start_time, cam_fps, buffer_size, nframes, md,
                   frame_buffer, is_precapture_recorded, pre_threads, file_list,
                   sessions, procs, obs>>

(* MotionDetector.on_movie_end_action, lines 411-423: the movie-end hook,  *)
(* whose exit status is logged                                             *)
PostHook(i) ==
    /\ i \in DOMAIN post_threads
    /\ post_threads[i].pc = "hook"
    /\ \E returncode_zero \in BOOLEAN :
          post_threads' = [post_threads EXCEPT
              ![i].hook_filename = post_threads[i].final_movie_name,
              ![i].hook_runs = @ + 1,
              ![i].hook_status = IF returncode_zero THEN "zero" ELSE "nonzero",
              ![i].pc = "done"]
    /\ UNCHANGED <<cfg, now, main_pc, start_time, cam_fps, buffer_size, nframes, md,
                   frame_buffer, is_precapture_recorded, pre_threads, file_list,
                   sessions, procs, obs>>

ThreadIds == 1..MaxSessions

Next ==
    \/ Start
    \/ Frame
    \/ FrameEngineRaises
    \/ EndOfStream
    \/ Signal
    \/ Del
    \/ \E i \in ThreadIds : PreStep(i)
    \/ \E i \in ThreadIds : PostPollFound(i)
    \/ \E i \in ThreadIds : PostPollTimeout(i)
    \/ \E i \in ThreadIds : PostWriteList(i)
    \/ \E i \in ThreadIds : PostConcat(i)
    \/ \E i \in ThreadIds : PostHook(i)

Spec == Init /\ [][Next]_vars

(* A step of post-processing thread i *)
PostStep(i) ==
    \/ PostPollFound(i)
    \/ PostPollTimeout(i)
    \/ PostWriteList(i)
    \/ PostConcat(i)
    \/ PostHook(i)

(* Every started post-processing thread keeps being scheduled: its wait is *)
(* a loop of PollRetries polls and its other steps are straight-line code. *)
(* Nothing is assumed of the frame loop or of the precapture threads.      *)
FairSpec == Spec /\ \A i \in ThreadIds : WF_vars(PostStep(i))

(* The exit of the interpreter: every started thread keeps being scheduled *)
(* until it ends, and __del__ runs once the threads have been joined.      *)
(* Nothing is assumed of the encoder: whether it exits after SIGINT is an  *)
(* input of Del.                                                           *)
ExitSpec ==
    /\ Spec
    /\ \A i \in ThreadIds : WF_vars(PreStep(i)) /\ WF_vars(PostStep(i))
    /\ WF_vars(Del)

(* Runs of one more frame and one more session, under the configurations   *)
(* in which handle_motion_detection opens a session (line 214) and with    *)
(* hook commands that return 0: long enough for a frame after a rollover.  *)
RecordingConfigs == { c \in Configs : ~c.movie_enable }

(* The inputs under which every hook command exits zero *)
HooksZero == { e \in Envs : e.hook_ok }


LongThreadIds == 1..(MaxSessions + 1)

LongInit == Init /\ cfg \in RecordingConfigs

LongFrame == FrameWithin(MaxFrames + 1, MaxSessions + 1, MaxTime, HooksZero)

LongFrameEngineRaises == FrameEngineRaisesWithin(MaxFrames + 1, MaxTime)

LongNext ==
    \/ Start
    \/ LongFrame
    \/ LongFrameEngineRaises
    \/ EndOfStream
    \/ Signal
    \/ Del
    \/ \E i \in LongThreadIds : PreStep(i)
    \/ \E i \in LongThreadIds : PostPollFound(i)
    \/ \E i \in LongThreadIds : PostPollTimeout(i)
    \/ \E i \in LongThreadIds : PostWriteList(i)
    \/ \E i \in LongThreadIds : PostConcat(i)
    \/ \E i \in LongThreadIds : PostHook(i)

LongSpec == LongInit /\ [][LongNext]_vars

(* The same runs with two more time units: long enough for a second        *)
(* rollover, and so for two post-processing threads at work at the same    *)
(* time.                                                                   *)
OverlapTime == MaxTime + 2

OverlapFrame == FrameWithin(MaxFrames + 1, MaxSessions + 1, OverlapTime, HooksZero)

OverlapFrameEngineRaises == FrameEngineRaisesWithin(MaxFrames + 1, OverlapTime)

OverlapNext ==
    \/ Start
    \/ OverlapFrame
    \/ OverlapFrameEngineRaises
    \/ EndOfStream
    \/ Signal
    \/ Del
    \/ \E i \in LongThreadIds : PreStep(i)
    \/ \E i \in LongThreadIds : PostPollFound(i)
    \/ \E i \in LongThreadIds : PostPollTimeout(i)
    \/ \E i \in LongThreadIds : PostWriteList(i)
    \/ \E i \in LongThreadIds : PostConcat(i)
    \/ \E i \in LongThreadIds : PostHook(i)

OverlapSpec == LongInit /\ [][OverlapNext]_vars

----------------------------------------------------------------------------
(* Vocabulary of the properties *)

(* The step is an iteration of the frame loop *)
FrameStep == nframes' = nframes + 1

(* The step is an iteration of the frame loop that calls detect_motion *)
FedStep == FrameStep /\ obs'.fed

(* The frame loop's last step made a call of op with this outcome *)
Called(o, op, ok) == \E k \in DOMAIN o.calls : o.calls[k].op = op /\ o.calls[k].ok = ok

CalledOp(o, op) == \E k \in DOMAIN o.calls : o.calls[k].op = op

Counter == md.detected_motion_consecutive_frames

----------------------------------------------------------------------------
(* C1: the consecutive-motion counter increases only on a frame fed to     *)
(* detect_motion with a non-empty detection, then by exactly 1, and it is  *)
(* 0 after every fed frame whose detection is empty.                       *)
C1_CounterFollowsDetections ==
    [][ /\ Counter' > Counter => FedStep /\ obs'.motion /\ Counter' = Counter + 1
        /\ FedStep /\ obs'.motion => Counter' = Counter + 1
        /\ FedStep /\ ~obs'.motion => Counter' = 0 ]_vars

(* A second consecutive non-empty frame has been counted *)
C1_Witness ==
    obs.op = "frame" /\ obs.fed /\ obs.motion /\ Counter = 2

(* C2: is_event_ongoing goes from false to true only on a fed frame with a *)
(* non-empty detection that is the last of at least consecutive_frames     *)
(* consecutive non-empty detections.                                       *)
C2_ActiveOnlyAfterThreshold ==
    [][ ~md.is_event_ongoing /\ md'.is_event_ongoing
          => FedStep /\ obs'.motion /\ obs'.run >= cfg.consecutive_frames ]_vars

(* The event has just started, on the frame that completed the run *)
C2_Witness ==
    /\ obs.op = "frame" /\ CalledOp(obs, "start_event")
    /\ md.is_event_ongoing /\ obs.run = cfg.consecutive_frames

(* C3: a frame makes an active event inactive only if more than            *)
(* no_motion_timeout time units have passed since the last non-empty       *)
(* detection, whatever the encoder and the hooks did on that frame.        *)
C3_ActiveUntilTimeout ==
    [][ FrameStep /\ md.is_event_ongoing /\ ~md'.is_event_ongoing
          => now' - obs'.last_nonempty > cfg.no_motion_timeout ]_vars

(* An active event went through a rollover whose stop and launch both      *)
(* failed, and is still active                                             *)
C3_Witness ==
    /\ obs.op = "frame" /\ md.is_event_ongoing
    /\ Called(obs, "stop_movie_recording", FALSE)
    /\ Called(obs, "start_movie_recording", FALSE)

RolloverDue ==
    /\ FedStep
    /\ md.is_event_ongoing /\ md'.is_event_ongoing
    /\ md.is_movie_recording
    /\ now' - md.movie_start_time > cfg.max_duration

(* The step hands the session that was open to a post-processing thread *)
HandedOver ==
    /\ Len(post_threads') = Len(post_threads) + 1
    /\ LET th == post_threads'[Len(post_threads')]
       IN  /\ th.sid = md.gst_process
           /\ th.movie_filename = md.movie_filename
           /\ th.final_movie_name = md.final_movie_filename

(* The step ends with a session open that is not the one open before *)
NewSessionOpen ==
    /\ md'.is_movie_recording
    /\ md'.gst_process # NoProcess /\ md'.gst_process # md.gst_process
    /\ md'.movie_start_time = now'

(* C5 as stated: on every such frame the current session is handed to      *)
(* post-processing and a new session is open at the end of the frame.      *)
C5_AsStated ==
    [][ RolloverDue => HandedOver /\ NewSessionOpen ]_vars

(* C5: on every such frame stop_movie_recording is called, and then        *)
(* start_movie_recording unless the stop blocks in its wait for an encoder *)
(* that never exits; the session is handed to post-processing exactly when *)
(* the stop returns without raising, a new session is open at the end of   *)
(* the frame exactly when the encoder launches, and when the stop succeeds *)
(* and the launch fails no session is open.                                *)
C5_RolloverStopsThenStarts ==
    [][ RolloverDue =>
          /\ CalledOp(obs', "stop_movie_recording")
          /\ CalledOp(obs', "start_movie_recording") <=> main_pc' # "blocked"
          /\ Called(obs', "stop_movie_recording", TRUE) <=> HandedOver
          /\ Called(obs', "start_movie_recording", TRUE) <=> NewSessionOpen
          /\ Called(obs', "stop_movie_recording", TRUE)
               /\ Called(obs', "start_movie_recording", FALSE)
               => ~md'.is_movie_recording /\ md'.gst_process = NoProcess ]_vars

(* A rollover whose stop and launch both succeeded *)
C5_Witness ==
    /\ obs.op = "frame" /\ md.is_event_ongoing /\ md.is_movie_recording
    /\ Called(obs, "stop_movie_recording", TRUE)
    /\ Called(obs, "start_movie_recording", TRUE)

----------------------------------------------------------------------------
(* Post-processing *)

(* Thread i has run to its end *)
PostDone(i) == i \in DOMAIN post_threads /\ post_threads[i].pc = "done"

(* C6: every session that stop_movie_recording stopped gets its movie-end  *)
(* hook run exactly once: never twice, and eventually once, whether the    *)
(* concatenation succeeded, failed, or the wait for the flag timed out.    *)
C6_MovieEndHookExactlyOnce ==
    /\ [](\A i \in DOMAIN post_threads :
              /\ post_threads[i].hook_runs <= 1
              /\ post_threads[i].pc = "done" => post_threads[i].hook_runs = 1)
    /\ \A i \in ThreadIds :
          (i \in DOMAIN post_threads)
              ~> (PostDone(i) /\ post_threads[i].hook_runs = 1)

(* A job whose wait timed out has run the hook *)
C6_Witness ==
    \E i \in DOMAIN post_threads :
        /\ PostDone(i) /\ post_threads[i].outcome = "timeout"
        /\ post_threads[i].polls = PollRetries
        /\ post_threads[i].hook_runs = 1

(* C7 as stated: with precapture recording enabled, after a timed-out wait *)
(* or a failed concatenation the movie-end hook gets the live segment      *)
(* filename.                                                               *)
C7_FallbackToSegmentFile ==
    \A i \in DOMAIN post_threads :
        PostDone(i) /\ cfg.record_precapture
            /\ post_threads[i].outcome \in {"timeout", "failed"}
          => post_threads[i].hook_filename = post_threads[i].movie_filename

(* C8 as stated: with precapture recording enabled, after a successful     *)
(* concatenation the movie-end hook gets the session's final filename, the *)
(* one given to the movie-start hook.                                      *)
C8_HookGetsFinalFile ==
    \A i \in DOMAIN post_threads :
        PostDone(i) /\ cfg.record_precapture
            /\ post_threads[i].outcome = "concatenated"
          => /\ post_threads[i].hook_filename
                  = sessions[post_threads[i].sid].final_movie_filename
             /\ post_threads[i].hook_filename
                  = sessions[post_threads[i].sid].start_hook_filename

----------------------------------------------------------------------------
(* Recording policy *)

(* C9 as stated: with movie.enable true and no failed encoder launch, a    *)
(* frame that confirms motion while no session is open ends with a session *)
(* open.                                                                   *)
C9_RecordingOpensWhenEnabled ==
    [][ /\ FedStep /\ cfg.movie_enable
        /\ obs'.motion /\ Counter' >= cfg.consecutive_frames
        /\ md'.is_event_ongoing
        /\ ~md.is_movie_recording
        /\ ~Called(obs', "start_movie_recording", FALSE)
        => md'.is_movie_recording ]_vars

(* The frame has no detection, finds the event active, and both the        *)
(* no-motion timeout and the session's max_duration are exceeded           *)
BothExceeded ==
    /\ FedStep /\ ~obs'.motion
    /\ md.is_event_ongoing /\ md.is_movie_recording
    /\ now' - md.last_motion_time > cfg.no_motion_timeout
    /\ now' - md.movie_start_time > cfg.max_duration

(* C10 as stated: on such a frame the event ends, the open session is      *)
(* closed and no new session is opened.                                    *)
C10_AsStated ==
    [][ BothExceeded =>
          /\ ~md'.is_event_ongoing
          /\ ~md'.is_movie_recording
          /\ ~CalledOp(obs', "start_movie_recording") ]_vars

(* C10: on such a frame the event ends, no new session is opened, and      *)
(* stop_movie_recording is called on the open session, which is closed and *)
(* handed to post-processing exactly when one of the frame's (at most two) *)
(* stop attempts returns without raising.                                  *)
C10_NoMotionStopWins ==
    [][ BothExceeded =>
          /\ ~md'.is_event_ongoing
          /\ ~CalledOp(obs', "start_movie_recording")
          /\ CalledOp(obs', "stop_movie_recording")
          /\ Called(obs', "stop_movie_recording", TRUE) <=> ~md'.is_movie_recording
          /\ Called(obs', "stop_movie_recording", TRUE) <=> HandedOver ]_vars

(* The event has just been ended by the timeout on a frame that also found *)
(* the session older than max_duration; the session was stopped            *)
C10_Witness ==
    /\ obs.op = "frame" /\ CalledOp(obs, "stop_event")
    /\ Called(obs, "stop_movie_recording", TRUE)
    /\ ~md.is_event_ongoing /\ ~md.is_movie_recording
    /\ post_threads # <<>>
    /\ now - post_threads[Len(post_threads)].movie_filename[2] > cfg.max_duration

----------------------------------------------------------------------------
(* Encoder processes *)

(* C11 as stated: at most one encoder process launched by the controller   *)
(* is running at any time.                                                 *)
C11_AtMostOneLiveEncoder ==
    Cardinality(procs) <= 1

----------------------------------------------------------------------------
(* Shutdown *)

(* The step is the execution of MotionDetector.__del__ *)
DelStep == main_pc = "ended" /\ main_pc' \in {"exited", "del_blocked"}

(* In the calls of o every call of a comes before every call of b *)
Before(o, a, b) ==
    \A i, j \in DOMAIN o.calls :
        o.calls[i].op = a /\ o.calls[j].op = b => i < j

(* C12 as stated: the shutdown sequence runs the event-end hook, then      *)
(* terminates the encoder of the open session, then cleans the temporary   *)
(* files; the encoder is never terminated before the event-end step.       *)
C12_ShutdownOrder ==
    [][ DelStep =>
          /\ Before(obs', "on_event_end", "kill_encoder")
          /\ Before(obs', "kill_encoder", "clean_tmp")
          /\ Before(obs', "on_event_end", "clean_tmp") ]_vars

(* C13 as stated: when terminating the encoder raises during shutdown, the *)
(* event-end step and the cleanup of the temporary files are still done.   *)
C13_ShutdownContinuesAfterFailure ==
    [][ DelStep /\ main_pc' = "exited" /\ Called(obs', "kill_encoder", FALSE)
          => /\ CalledOp(obs', "on_event_end")
             /\ CalledOp(obs', "clean_tmp") ]_vars

----------------------------------------------------------------------------
(* Event hooks *)

(* Number of calls of op made by the frame loop's last step *)
Count(o, op) == Cardinality({k \in DOMAIN o.calls : o.calls[k].op = op})

(* The frame makes an inactive event active *)
EventStarts == FrameStep /\ ~md.is_event_ongoing /\ md'.is_event_ongoing

TimeoutDue ==
    /\ FedStep /\ ~obs'.motion
    /\ md.is_event_ongoing
    /\ now' - obs.last_nonempty > cfg.no_motion_timeout

(* C15 as stated: on such a frame the event becomes inactive, the          *)
(* event-end hook is run exactly once and any open session is stopped.     *)
C15_AsStated ==
    [][ TimeoutDue =>
          /\ ~md'.is_event_ongoing
          /\ Count(obs', "on_event_end") = 1
          /\ ~md'.is_movie_recording
          /\ md.is_movie_recording => HandedOver ]_vars

(* C15: on such a frame the event becomes inactive and the event-end hook  *)
(* is run exactly once (and on no other frame); stop_movie_recording is    *)
(* called on an open session, which is closed and handed to                *)
(* post-processing exactly when one of the frame's stop attempts returns   *)
(* without raising.                                                        *)
C15_TimeoutEndsEvent ==
    [][ FrameStep =>
          /\ TimeoutDue =>
                /\ ~md'.is_event_ongoing
                /\ Count(obs', "on_event_end") = 1
                /\ md.is_movie_recording =>
                      /\ CalledOp(obs', "stop_movie_recording")
                      /\ Called(obs', "stop_movie_recording", TRUE)
                            <=> ~md'.is_movie_recording
                      /\ Called(obs', "stop_movie_recording", TRUE) <=> HandedOver
                /\ ~md.is_movie_recording => ~md'.is_movie_recording
          /\ ~TimeoutDue => Count(obs', "on_event_end") = 0 ]_vars

(* The timeout has just ended an event whose session was open: the hook    *)
(* ran once and the session was stopped                                    *)
C15_Witness ==
    /\ obs.op = "frame" /\ obs.fed /\ ~obs.motion
    /\ now - obs.last_nonempty > cfg.no_motion_timeout
    /\ Count(obs, "on_event_end") = 1
    /\ Called(obs, "stop_movie_recording", TRUE)
    /\ ~md.is_event_ongoing /\ ~md.is_movie_recording /\ post_threads # <<>>

----------------------------------------------------------------------------
(* Encoder launch failure *)

(* On this frame start_movie_recording was called and Popen raised *)
LaunchFails == FrameStep /\ Called(obs', "start_movie_recording", FALSE)

----------------------------------------------------------------------------
(* Precapture encode job *)

(* C17 as stated: the precapture encode job writes exactly the frames the  *)
(* buffer held when the session started, in order: each frame it hands to  *)
(* the writer is the next one of that snapshot, and it ends after the last *)
(* one.                                                                    *)
C17_PrecaptureWritesSnapshot ==
    [][ \A i \in DOMAIN pre_threads :
          LET th == pre_threads[i]
          IN  /\ pre_threads'[i].idx = th.idx + 1 =>
                    /\ th.idx + 1 <= Len(th.at_start)
                    /\ frame_buffer[th.idx + 1] = th.at_start[th.idx + 1]
              /\ th.pc = "write" /\ pre_threads'[i].pc = "done" =>
                    th.idx = Len(th.at_start) ]_vars

----------------------------------------------------------------------------
(* Waiting for the encoder *)

(* C18 as stated: a frame that calls stop_movie_recording does not leave   *)
(* the frame loop waiting for the encoder: the call returns and the loop   *)
(* is ready for the next frame, also when the encoder never exits after    *)
(* SIGINT.                                                                 *)
C18_FrameLoopNeverWaits ==
    [][ FrameStep /\ CalledOp(obs', "stop_movie_recording")
          => main_pc' = "loop" ]_vars

(* C19 as stated: once the interpreter exits, the shutdown sequence        *)
(* reaches its end, also when the encoder ignores SIGINT.                  *)
C19_ShutdownTerminates ==
    (main_pc = "ended") ~> (main_pc = "exited")

----------------------------------------------------------------------------
(* Soak period *)

(* C20: a frame read while no more than the soak period has passed since   *)
(* the loop started is pushed into the precapture buffer and changes       *)
(* nothing else: not the detector's attributes (event state, counter,      *)
(* last_motion_time, recording state), no hook or other call is made, no   *)
(* thread or encoder is started, whatever the detection result.            *)
C20_SoakOnlyBuffers ==
    [][ FrameStep /\ now' - start_time <= SoakSeconds =>
          /\ frame_buffer' # <<>>
          /\ frame_buffer'[Len(frame_buffer')] = nframes'
          /\ md' = md
          /\ obs'.calls = <<>>
          /\ pre_threads' = pre_threads /\ post_threads' = post_threads
          /\ procs' = procs /\ sessions' = sessions ]_vars

(* Two frames with a detection were read during the soak period, the       *)
(* second at its very end: the buffer holds it and nothing was counted     *)
C20_Witness ==
    /\ obs.op = "frame" /\ obs.motion /\ ~obs.fed
    /\ nframes = 2 /\ now - start_time = SoakSeconds
    /\ frame_buffer = <<2>>
    /\ md = InitMd

----------------------------------------------------------------------------
(* Session and event *)

(* C21 as stated: when detect_motion has completed, a session is open only *)
(* if the event is active.                                                 *)
C21_AsStated ==
    [][ FedStep /\ main_pc' = "loop"
          => (md'.is_movie_recording => md'.is_event_ongoing) ]_vars

(* C21: when detect_motion has completed with the event inactive, a        *)
(* session is open exactly when the frame called stop_movie_recording and  *)
(* every attempt raised: two attempts on the frame that ended the event,   *)
(* one on a later frame.                                                   *)
C21_SessionOutlivesEventOnlyAfterFailedStop ==
    [][ FedStep /\ main_pc' = "loop" /\ ~md'.is_event_ongoing =>
          /\ md'.is_movie_recording <=>
                /\ CalledOp(obs', "stop_movie_recording")
                /\ ~Called(obs', "stop_movie_recording", TRUE)
          /\ md'.is_movie_recording =>
                Count(obs', "stop_movie_recording") =
                    IF md.is_event_ongoing THEN 2 ELSE 1 ]_vars

(* The timeout ended the event and both stop attempts of the frame raised: *)
(* the session is still open                                               *)
C21_Witness ==
    /\ obs.op = "frame" /\ main_pc = "loop"
    /\ CalledOp(obs, "on_event_end")
    /\ Count(obs, "stop_movie_recording") = 2
    /\ ~Called(obs, "stop_movie_recording", TRUE)
    /\ ~md.is_event_ongoing /\ md.is_movie_recording

----------------------------------------------------------------------------
(* Filenames of a session *)

(* C22: the three filenames handed to a post-processing thread when a      *)
(* session is stopped are those derived when the session whose encoder was *)
(* stopped was started.                                                    *)
C22_HandedNamesAreTheSessionsOwn ==
    [][ Len(post_threads') = Len(post_threads) + 1 =>
          LET th == post_threads'[Len(post_threads')]
              s  == sessions[th.sid]
          IN  /\ th.precapture_movie_filename = s.precapture_movie_filename
              /\ th.movie_filename = s.movie_filename
              /\ th.final_movie_name = s.final_movie_filename ]_vars

(* The frame stopped the open session and then started a session *)
RolledOver ==
    /\ FedStep
    /\ \E i, j \in DOMAIN obs'.calls :
          /\ i < j
          /\ obs'.calls[i].op = "stop_movie_recording"
          /\ obs'.calls[j].op = "start_movie_recording"

(* C23: a frame that finds the session open longer than max_duration while *)
(* the event stays active rolls it over once; a session is rolled over     *)
(* only when it has been open longer than max_duration; and the session a  *)
(* rollover launches has its duration clock at the time of the rollover    *)
(* and a segment filename other than that of the session rolled over.      *)
C23_RolloverRestartsClockAndName ==
    [][ /\ RolloverDue /\ main_pc' = "loop" =>
              /\ RolledOver
              /\ Count(obs', "stop_movie_recording") = 1
              /\ Count(obs', "start_movie_recording") = 1
        /\ RolledOver => now' - md.movie_start_time > cfg.max_duration
        /\ RolledOver /\ Called(obs', "start_movie_recording", TRUE) =>
              /\ md'.movie_start_time = now'
              /\ md'.gst_process # md.gst_process
              /\ sessions'[md'.gst_process].movie_filename
                     # sessions[md.gst_process].movie_filename
              /\ md'.movie_filename # sessions[md.gst_process].movie_filename
      ]_vars

(* The first session was rolled over into the second, and the frame after  *)
(* the rollover left the second session open                               *)
C23_Witness ==
    /\ obs.op = "frame" /\ obs.fed /\ nframes = MaxFrames + 1
    /\ md.is_event_ongoing /\ md.is_movie_recording
    /\ Len(sessions) = 2 /\ md.gst_process = 2
    /\ Len(post_threads) = 1 /\ post_threads[1].sid = 1
    /\ ~CalledOp(obs, "stop_movie_recording")
    /\ ~CalledOp(obs, "start_movie_recording")
    /\ sessions[1].movie_filename # sessions[2].movie_filename

----------------------------------------------------------------------------
(* Failing hooks *)

HookOps == {"on_event_start", "on_event_end", "on_movie_start", "on_picture_save"}

(* Two outcomes of a handler that differ at most in the exit status of the *)
(* hook commands it ran                                                    *)
SameButHookStatus(a, b) ==
    /\ a.md = b.md
    /\ a.frame_buffer = b.frame_buffer
    /\ a.pre_threads = b.pre_threads
    /\ a.post_threads = b.post_threads
    /\ a.procs = b.procs
    /\ a.sessions = b.sessions
    /\ a.blocked = b.blocked
    /\ Len(a.calls) = Len(b.calls)
    /\ \A k \in DOMAIN a.calls :
          /\ a.calls[k].op = b.calls[k].op
          /\ a.calls[k].arg = b.calls[k].arg
          /\ a.calls[k].op \notin HookOps => a.calls[k].ok = b.calls[k].ok

(* C24: whatever frame comes next, and whatever the other collaborators    *)
(* do, process_frame leaves the detector in the same state, with the same  *)
(* calls made and the loop running or not alike, when the hook commands    *)
(* exit non-zero as when they exit zero; so does __del__; and a            *)
(* post-processing thread ends after its one movie-end hook run whatever   *)
(* the exit status.                                                        *)
C24_HookFailureOnlyLogged ==
    /\ main_pc = "loop" /\ nframes < MaxFrames =>
          \A d \in TimeSteps, env \in HooksZero :
              now + d <= MaxTime =>
                  LET w0 == [World EXCEPT
                                !.frame_buffer = push_frame(@, nframes + 1)]
                  IN  SameButHookStatus(
                          process_frame(w0, now + d, env),
                          process_frame(w0, now + d, [env EXCEPT !.hook_ok = FALSE]))
    /\ main_pc = "ended" =>
          \A env \in HooksZero :
              SameButHookStatus(
                  del_detector(World, env),
                  del_detector(World, [env EXCEPT !.hook_ok = FALSE]))
    /\ \A i \in DOMAIN post_threads :
          post_threads[i].hook_status # "none" =>
              /\ post_threads[i].pc = "done"
              /\ post_threads[i].hook_runs = 1

(* The event-end hook failed on the last frame, the movie-end hook of a    *)
(* session failed, and the frame loop runs                                 *)
C24_Witness ==
    /\ obs.op = "frame" /\ main_pc = "loop"
    /\ Called(obs, "on_event_end", FALSE)
    /\ ~md.is_event_ongoing /\ ~md.is_movie_recording
    /\ \E i \in DOMAIN post_threads : post_threads[i].hook_status = "nonzero"

----------------------------------------------------------------------------
(* Recording disabled *)

(* C25: with movie.enable false no session is ever opened and no encoder   *)
(* launched: is_movie_recording stays false, no encoder runs and the       *)
(* movie-start hook is never run.                                          *)
C25_DisabledNeverRecords ==
    ~cfg.movie_enable =>
        /\ ~md.is_movie_recording
        /\ md.gst_process = NoProcess
        /\ procs = {}
        /\ sessions = <<>>
        /\ ~CalledOp(obs, "on_movie_start")

----------------------------------------------------------------------------
(* Concurrent post-processing *)

(* C26: the concatenation of a post-processing thread reads the list of    *)
(* its own precapture and segment files, whatever other post-processing    *)
(* thread runs at the same time.                                           *)
C26_ConcatenationReadsOwnList ==
    \A i \in DOMAIN post_threads :
        post_threads[i].outcome \in {"concatenated", "failed"} =>
            post_threads[i].concat_read =
                << post_threads[i].precapture_movie_filename,
                   post_threads[i].movie_filename >>

----------------------------------------------------------------------------
(* Shutdown with a session open *)

(* C27: a session open when the interpreter begins to exit is handed to a  *)
(* post-processing thread, which runs the movie-end hook once (unless      *)
(* __del__ never returns from its wait for the encoder).                   *)
C27_ShutdownRunsMovieEndHook ==
    \A s \in ThreadIds :
        (main_pc = "ended" /\ md.is_movie_recording /\ md.gst_process = s)
            ~> \/ main_pc = "del_blocked"
               \/ \E i \in DOMAIN post_threads :
                      /\ post_threads[i].sid = s
                      /\ post_threads[i].pc = "done"
                      /\ post_threads[i].hook_runs = 1

----------------------------------------------------------------------------
(* Balance of the event hooks *)

(* C28: the event-end hook is run only by a step that finds the event      *)
(* active, in the frame loop and at shutdown.                              *)
C28_EventEndOnlyWhenActive ==
    [][ (FrameStep \/ DelStep) /\ CalledOp(obs', "on_event_end")
          => md.is_event_ongoing ]_vars

====
